---- MODULE Spec2Model ----
(***************************************************************************)
(* Model of src/src/video_inference.cpp: the SafeQueue<T> class (a mutex,  *)
(* a condition variable, a std::queue and a finished flag) and the three   *)
(* stage threads that main() starts and joins.                             *)
(*                                                                         *)
(* A cv::Mat is a reference to a pixel buffer.  The buffer created by the  *)
(* k-th frame.clone() is buffer k (its content is the k-th frame read from *)
(* the source); 0 is the empty Mat.  drawn[b] tells whether                *)
(* drawBoundingBox has drawn into buffer b.                                *)
(***************************************************************************)
EXTENDS Integers, Sequences, FiniteSets, TLC

\* ---------------------------------------------------------------- bounds
MaxFrames == 2
MaxSpurious == 1
MaxOps == 3
MaxCalls == 3

\* ------------------------------------------------------------- names
Queues == {"frameQueue", "processedQueue"}
Stages == {"captureThread", "processingThread", "writingThread"}
Clients == {"producer", "consumer"}
Threads == {"main"} \cup Stages \cup Clients
NoThread == "none"

VARIABLES
    pc,
    q, m, c, finished,
    local,
    arg,
    frameCount, frameIndex,
    readPos, srcLen, capOpened, outOpened, capReleased, outReleased,
    drawn, writes, readError, exitCode,
    enqLog, deqLog, eosCount, finCallers, lateEnq, call, efSeen, finNonEmpty,
    spurious, ops

qv == <<q, m, c, finished>>
tv == <<local, arg, frameCount, frameIndex>>
ev == <<readPos, srcLen, capOpened, outOpened, capReleased, outReleased,
        drawn, writes, readError, exitCode>>
gv == <<enqLog, deqLog, eosCount, finCallers, lateEnq, call, efSeen,
        finNonEmpty, spurious, ops>>
vars == <<pc, qv, tv, ev, gv>>

\* ------------------------------------------------ SafeQueue, pure parts
\* q.push(t)
PushFront(s, x) == <<x>> \o s
Push(s, x) == Append(s, x)

\* q.front()
Back(s) == s[Len(s)]
Front(s) == Head(s)

\* q.pop()
KeepFront(s) == s
Pop(s) == Tail(s)

\* while (q.empty()) { if (finished) return false; c.wait(lock); }
FinishedFirst(empty, fin) ==
    IF fin THEN "eos" ELSE IF empty THEN "wait" ELSE "take"
NoFinishedCheck(empty, fin) ==
    IF empty THEN "wait" ELSE "take"
DequeueOutcome(empty, fin) ==
    IF ~empty THEN "take" ELSE IF fin THEN "eos" ELSE "wait"

\* finished = true
ToggleFinished(old) == ~old
SetFinishedValue(old) == TRUE

\* c.notify_all(): nobody stays blocked
NotifyNobody(waiters) == waiters
NotifyAll(waiters) == {}

\* c.notify_one(): the possible sets of threads still blocked afterwards
NotifyNothing(waiters) == {waiters}
NotifyOne(waiters) ==
    IF waiters = {} THEN {waiters} ELSE {waiters \ {w} : w \in waiters}

\* frameIndex++
SkipIndex(i) == i + 2
NextIndex(i) == i + 1

\* ----------------------------------------------------- who uses which queue
EnqQueue(t) == IF t = "processingThread" THEN "processedQueue" ELSE "frameQueue"
DeqQueue(t) == IF t = "writingThread" THEN "processedQueue" ELSE "frameQueue"
StageProducer(qn) == IF qn = "frameQueue" THEN "captureThread" ELSE "processingThread"
StageConsumer(qn) == IF qn = "frameQueue" THEN "processingThread" ELSE "writingThread"

\* ----------------------------------------------------- control flow of the callers
\* where a thread continues when enqueue returns
AfterEnqueue(t) ==
    CASE t = "captureThread" -> "count"
      [] t = "processingThread" -> "deq_lock"
      [] OTHER -> "idle"

\* where a thread continues when dequeue returns ok
NoDownstreamFinish(t, ok) ==
    CASE t = "processingThread" -> IF ok THEN "detect" ELSE "done"
      [] t = "writingThread" -> IF ok THEN "write" ELSE "done"
      [] OTHER -> "idle"
AfterDequeue(t, ok) ==
    CASE t = "processingThread" -> IF ok THEN "detect" ELSE "fin_lock"
      [] t = "writingThread" -> IF ok THEN "write" ELSE "done"
      [] OTHER -> "idle"

\* where a thread continues when setFinished returns
FinishedInsideLoop(t) ==
    CASE t = "captureThread" -> "read"
      [] t = "processingThread" -> "deq_lock"
      [] OTHER -> "idle"
AfterSetFinished(t) ==
    CASE t \in Stages -> "done"
      [] OTHER -> "idle"

\* thread.join() returns when the thread has finished
JoinWithoutWaiting(t) == TRUE
Joinable(t) == pc[t] = "done"

\* ------------------------------------------------------------------ Init
InitCommon ==
    /\ q = [qn \in Queues |-> <<>>]
    /\ m = [qn \in Queues |-> NoThread]
    /\ c = [qn \in Queues |-> {}]
    /\ finished = [qn \in Queues |-> FALSE]
    /\ local = [t \in Threads |-> IF t = "writingThread" THEN <<0, 0>> ELSE 0]
    /\ arg = [t \in Threads |-> IF t = "processingThread" THEN <<0, 0>> ELSE 0]
    /\ frameCount = 0
    /\ frameIndex = 0
    /\ readPos = 0
    /\ capReleased = FALSE
    /\ outReleased = FALSE
    /\ drawn = [b \in {} |-> FALSE]
    /\ writes = <<>>
    /\ readError = FALSE
    /\ exitCode = 0
    /\ enqLog = [qn \in Queues |-> <<>>]
    /\ deqLog = [qn \in Queues |-> <<>>]
    /\ eosCount = [qn \in Queues |-> 0]
    /\ finCallers = [qn \in Queues |-> <<>>]
    /\ lateEnq = [qn \in Queues |-> FALSE]
    /\ call = [t \in Threads |-> [waited |-> FALSE, ret |-> "none"]]
    /\ efSeen = [qn \in Queues |-> FALSE]
    /\ finNonEmpty = [qn \in Queues |-> FALSE]
    /\ spurious = 0
    /\ ops = [t \in Clients |-> 0]

Init ==
    /\ InitCommon
    /\ pc = [t \in Threads |->
               IF t = "main" THEN "open_cap"
               ELSE IF t \in Stages THEN "unstarted" ELSE "off"]
    /\ srcLen \in 0..MaxFrames
    /\ capOpened \in BOOLEAN
    /\ outOpened \in BOOLEAN

\* ------------------------------------------------------------ SafeQueue
\* enqueue: std::lock_guard<std::mutex> lock(m)
EnqLock(t) ==
    /\ pc[t] = "enq_lock"
    /\ m[EnqQueue(t)] = NoThread
    /\ m' = [m EXCEPT ![EnqQueue(t)] = t]
    /\ pc' = [pc EXCEPT ![t] = "enq_push"]
    /\ UNCHANGED <<q, c, finished, tv, ev, gv>>

\* enqueue: q.push(t)
EnqPushBounded(t) ==
    LET qn == EnqQueue(t) IN
    /\ pc[t] = "enq_push"
    /\ Len(q[qn]) < 1
    /\ q' = [q EXCEPT ![qn] = Push(@, arg[t])]
    /\ enqLog' = [enqLog EXCEPT ![qn] = Append(@, arg[t])]
    /\ lateEnq' = [lateEnq EXCEPT ![qn] = @ \/ finished[qn]]
    /\ pc' = [pc EXCEPT ![t] = "enq_notify"]
    /\ UNCHANGED <<m, c, finished, tv, ev, deqLog, eosCount, finCallers, call,
                   efSeen, finNonEmpty, spurious, ops>>
EnqPush(t) ==
    LET qn == EnqQueue(t) IN
    /\ pc[t] = "enq_push"
    /\ q' = [q EXCEPT ![qn] = Push(@, arg[t])]
    /\ enqLog' = [enqLog EXCEPT ![qn] = Append(@, arg[t])]
    /\ lateEnq' = [lateEnq EXCEPT ![qn] = @ \/ finished[qn]]
    /\ pc' = [pc EXCEPT ![t] = "enq_notify"]
    /\ UNCHANGED <<m, c, finished, tv, ev, deqLog, eosCount, finCallers, call,
                   efSeen, finNonEmpty, spurious, ops>>

\* enqueue: c.notify_one()
EnqNotify(t) ==
    LET qn == EnqQueue(t) IN
    /\ pc[t] = "enq_notify"
    /\ \E rest \in NotifyOne(c[qn]) : c' = [c EXCEPT ![qn] = rest]
    /\ pc' = [pc EXCEPT ![t] = "enq_unlock"]
    /\ UNCHANGED <<q, m, finished, tv, ev, gv>>

\* enqueue: the lock_guard is destroyed, enqueue returns
EnqUnlock(t) ==
    LET qn == EnqQueue(t) IN
    /\ pc[t] = "enq_unlock"
    /\ m' = [m EXCEPT ![qn] = IF @ = t THEN NoThread ELSE @]
    /\ pc' = [pc EXCEPT ![t] = AfterEnqueue(t)]
    /\ UNCHANGED <<q, c, finished, tv, ev, gv>>

\* dequeue: std::unique_lock<std::mutex> lock(m)
DeqLock(t) ==
    LET qn == DeqQueue(t) IN
    /\ pc[t] = "deq_lock"
    /\ m[qn] = NoThread
    /\ m' = [m EXCEPT ![qn] = t]
    /\ call' = [call EXCEPT ![t] = [waited |-> FALSE, ret |-> "pending"]]
    /\ efSeen' = [efSeen EXCEPT ![qn] = @ \/ (q[qn] = <<>> /\ finished[qn])]
    /\ pc' = [pc EXCEPT ![t] = "deq_check"]
    /\ UNCHANGED <<q, c, finished, tv, ev, enqLog, deqLog, eosCount, finCallers,
                   lateEnq, finNonEmpty, spurious, ops>>

\* dequeue: the loop test, the finished test and c.wait(lock), which
\* releases the mutex and blocks the thread in one atomic step
DeqCheck(t) ==
    LET qn == DeqQueue(t)
        outcome == DequeueOutcome(q[qn] = <<>>, finished[qn]) IN
    /\ pc[t] = "deq_check"
    /\ IF outcome = "wait"
       THEN /\ pc' = [pc EXCEPT ![t] = "deq_wait"]
            /\ m' = [m EXCEPT ![qn] = IF @ = t THEN NoThread ELSE @]
            /\ c' = [c EXCEPT ![qn] = @ \cup {t}]
            /\ call' = [call EXCEPT ![t].waited = TRUE]
       ELSE /\ pc' = [pc EXCEPT ![t] = IF outcome = "take" THEN "deq_take" ELSE "deq_eos"]
            /\ UNCHANGED <<m, c, call>>
    /\ UNCHANGED <<q, finished, tv, ev, enqLog, deqLog, eosCount, finCallers,
                   lateEnq, efSeen, finNonEmpty, spurious, ops>>

\* dequeue: c.wait(lock) returns once the thread was woken and has the mutex again
DeqWakeNoRecheck(t) ==
    LET qn == DeqQueue(t) IN
    /\ pc[t] = "deq_wait"
    /\ t \notin c[qn]
    /\ m[qn] = NoThread
    /\ m' = [m EXCEPT ![qn] = t]
    /\ pc' = [pc EXCEPT ![t] = IF finished[qn] THEN "deq_eos" ELSE "deq_take"]
    /\ UNCHANGED <<q, c, finished, tv, ev, gv>>
DeqWake(t) ==
    LET qn == DeqQueue(t) IN
    /\ pc[t] = "deq_wait"
    /\ t \notin c[qn]
    /\ m[qn] = NoThread
    /\ m' = [m EXCEPT ![qn] = t]
    /\ pc' = [pc EXCEPT ![t] = "deq_check"]
    /\ UNCHANGED <<q, c, finished, tv, ev, gv>>

\* a condition variable may wake a waiting thread without any notify
SpuriousWake(t) ==
    LET qn == DeqQueue(t) IN
    /\ pc[t] = "deq_wait"
    /\ t \in c[qn]
    /\ spurious < MaxSpurious
    /\ c' = [c EXCEPT ![qn] = @ \ {t}]
    /\ spurious' = spurious + 1
    /\ UNCHANGED <<pc, q, m, finished, tv, ev, enqLog, deqLog, eosCount, finCallers,
                   lateEnq, call, efSeen, finNonEmpty, ops>>

\* dequeue: t = q.front(); q.pop(); return true (the lock is released)
DeqTake(t) ==
    LET qn == DeqQueue(t) IN
    /\ pc[t] = "deq_take"
    /\ q[qn] # <<>>
    /\ local' = [local EXCEPT ![t] = Front(q[qn])]
    /\ q' = [q EXCEPT ![qn] = Pop(@)]
    /\ deqLog' = [deqLog EXCEPT ![qn] = Append(@, Front(q[qn]))]
    /\ call' = [call EXCEPT ![t].ret = "item"]
    /\ m' = [m EXCEPT ![qn] = IF @ = t THEN NoThread ELSE @]
    /\ pc' = [pc EXCEPT ![t] = AfterDequeue(t, TRUE)]
    /\ UNCHANGED <<c, finished, arg, frameCount, frameIndex, ev, enqLog, eosCount,
                   finCallers, lateEnq, efSeen, finNonEmpty, spurious, ops>>

\* dequeue: return false (the lock is released)
DeqReturnFalse(t) ==
    LET qn == DeqQueue(t) IN
    /\ pc[t] = "deq_eos"
    /\ eosCount' = [eosCount EXCEPT ![qn] = @ + 1]
    /\ call' = [call EXCEPT ![t].ret = "eos"]
    /\ m' = [m EXCEPT ![qn] = IF @ = t THEN NoThread ELSE @]
    /\ pc' = [pc EXCEPT ![t] = AfterDequeue(t, FALSE)]
    /\ UNCHANGED <<q, c, finished, tv, ev, enqLog, deqLog, finCallers, lateEnq,
                   efSeen, finNonEmpty, spurious, ops>>

\* setFinished: std::lock_guard<std::mutex> lock(m)
FinLock(t) ==
    /\ pc[t] = "fin_lock"
    /\ m[EnqQueue(t)] = NoThread
    /\ m' = [m EXCEPT ![EnqQueue(t)] = t]
    /\ pc' = [pc EXCEPT ![t] = "fin_set"]
    /\ UNCHANGED <<q, c, finished, tv, ev, gv>>

\* setFinished: finished = true
FinSet(t) ==
    LET qn == EnqQueue(t) IN
    /\ pc[t] = "fin_set"
    /\ finished' = [finished EXCEPT ![qn] = SetFinishedValue(@)]
    /\ finCallers' = [finCallers EXCEPT ![qn] = Append(@, t)]
    /\ finNonEmpty' = [finNonEmpty EXCEPT ![qn] = @ \/ q[qn] # <<>>]
    /\ pc' = [pc EXCEPT ![t] = "fin_notify"]
    /\ UNCHANGED <<q, m, c, tv, ev, enqLog, deqLog, eosCount, lateEnq, call,
                   efSeen, spurious, ops>>

\* setFinished: c.notify_all()
FinNotify(t) ==
    LET qn == EnqQueue(t) IN
    /\ pc[t] = "fin_notify"
    /\ c' = [c EXCEPT ![qn] = NotifyAll(@)]
    /\ pc' = [pc EXCEPT ![t] = "fin_unlock"]
    /\ UNCHANGED <<q, m, finished, tv, ev, gv>>

\* setFinished: the lock_guard is destroyed, setFinished returns
FinUnlock(t) ==
    LET qn == EnqQueue(t) IN
    /\ pc[t] = "fin_unlock"
    /\ m' = [m EXCEPT ![qn] = IF @ = t THEN NoThread ELSE @]
    /\ pc' = [pc EXCEPT ![t] = AfterSetFinished(t)]
    /\ UNCHANGED <<q, c, finished, tv, ev, gv>>

QueueStep(t) ==
    \/ EnqLock(t) \/ EnqPush(t) \/ EnqNotify(t) \/ EnqUnlock(t)
    \/ DeqLock(t) \/ DeqCheck(t) \/ DeqWake(t) \/ DeqTake(t) \/ DeqReturnFalse(t)
    \/ FinLock(t) \/ FinSet(t) \/ FinNotify(t) \/ FinUnlock(t)

\* ------------------------------------------------------------ captureThread
\* while (cap.read(frame)): the source yields its next frame, or reports
\* exhaustion or a read failure by returning false
CaptureRead ==
    /\ pc["captureThread"] = "read"
    /\ \/ /\ readPos < srcLen
          /\ ~capReleased
          /\ readPos' = readPos + 1
          /\ local' = [local EXCEPT !["captureThread"] = readPos + 1]
          /\ pc' = [pc EXCEPT !["captureThread"] = "clone"]
          /\ UNCHANGED readError
       \/ /\ local' = [local EXCEPT !["captureThread"] = 0]
          /\ readError' = (readError \/ (readPos < srcLen /\ ~capReleased))
          /\ pc' = [pc EXCEPT !["captureThread"] = "fin_lock"]
          /\ UNCHANGED readPos
    /\ UNCHANGED <<qv, arg, frameCount, frameIndex, srcLen, capOpened, outOpened,
                   capReleased, outReleased, drawn, writes, exitCode, gv>>

\* frame.clone(): a fresh buffer holding the frame just read
CaptureClone ==
    /\ pc["captureThread"] = "clone"
    /\ arg' = [arg EXCEPT !["captureThread"] = local["captureThread"]]
    /\ drawn' = [b \in (DOMAIN drawn) \cup {local["captureThread"]} |->
                   IF b = local["captureThread"] THEN FALSE ELSE drawn[b]]
    /\ pc' = [pc EXCEPT !["captureThread"] = "enq_lock"]
    /\ UNCHANGED <<qv, local, frameCount, frameIndex, readPos, srcLen, capOpened,
                   outOpened, capReleased, outReleased, writes, readError, exitCode, gv>>

\* frameCount++
CaptureCount ==
    /\ pc["captureThread"] = "count"
    /\ frameCount' = frameCount + 1
    /\ pc' = [pc EXCEPT !["captureThread"] = "read"]
    /\ UNCHANGED <<qv, local, arg, frameIndex, ev, gv>>

\* ------------------------------------------------------------ processingThread
\* detector.detect(frame): reads the frame, returns the detections
Detect ==
    /\ pc["processingThread"] = "detect"
    /\ pc' = [pc EXCEPT !["processingThread"] = "draw"]
    /\ UNCHANGED <<qv, tv, ev, gv>>

\* detector.drawBoundingBox(frame, results): draws into the frame's buffer
Draw ==
    /\ pc["processingThread"] = "draw"
    /\ drawn' = [drawn EXCEPT ![local["processingThread"]] = TRUE]
    /\ pc' = [pc EXCEPT !["processingThread"] = "pair"]
    /\ UNCHANGED <<qv, tv, readPos, srcLen, capOpened, outOpened, capReleased,
                   outReleased, writes, readError, exitCode, gv>>

\* std::make_pair(frameIndex++, frame): the pair shares the frame's buffer
MakePair ==
    /\ pc["processingThread"] = "pair"
    /\ arg' = [arg EXCEPT !["processingThread"] = <<frameIndex, local["processingThread"]>>]
    /\ frameIndex' = NextIndex(frameIndex)
    /\ pc' = [pc EXCEPT !["processingThread"] = "enq_lock"]
    /\ UNCHANGED <<qv, local, frameCount, ev, gv>>

\* ------------------------------------------------------------ writingThread
\* out.write(processedFrame.second): the sink is handed the buffer's present
\* content; VideoWriter::write returns nothing, a failed write is not reported
WriteStopOnFailure ==
    LET b == local["writingThread"][2] IN
    /\ pc["writingThread"] = "write"
    /\ \E ok \in BOOLEAN :
          /\ writes' = Append(writes, [src |-> b, drawn |-> drawn[b],
                                       ok |-> ok /\ ~outReleased])
          /\ pc' = [pc EXCEPT !["writingThread"] = IF ok THEN "deq_lock" ELSE "done"]
    /\ UNCHANGED <<qv, tv, readPos, srcLen, capOpened, outOpened, capReleased,
                   outReleased, drawn, readError, exitCode, gv>>
Write ==
    LET b == local["writingThread"][2] IN
    /\ pc["writingThread"] = "write"
    /\ \E ok \in BOOLEAN :
          writes' = Append(writes, [src |-> b, drawn |-> drawn[b],
                                    ok |-> ok /\ ~outReleased])
    /\ pc' = [pc EXCEPT !["writingThread"] = "deq_lock"]
    /\ UNCHANGED <<qv, tv, readPos, srcLen, capOpened, outOpened, capReleased,
                   outReleased, drawn, readError, exitCode, gv>>

\* ------------------------------------------------------------ main
\* cv::VideoCapture cap(videoPath); if (!cap.isOpened()) return -1
MainOpenCap ==
    /\ pc["main"] = "open_cap"
    /\ IF capOpened
       THEN pc' = [pc EXCEPT !["main"] = "open_out"] /\ UNCHANGED exitCode
       ELSE pc' = [pc EXCEPT !["main"] = "done"] /\ exitCode' = -1
    /\ UNCHANGED <<qv, tv, readPos, srcLen, capOpened, outOpened, capReleased,
                   outReleased, drawn, writes, readError, gv>>

\* cv::VideoWriter out(...); if (!out.isOpened()) return -1
MainOpenOutUnchecked ==
    /\ pc["main"] = "open_out"
    /\ pc' = [pc EXCEPT !["main"] = "spawn_capture"]
    /\ UNCHANGED <<qv, tv, ev, gv>>
MainOpenOut ==
    /\ pc["main"] = "open_out"
    /\ IF outOpened
       THEN pc' = [pc EXCEPT !["main"] = "spawn_capture"] /\ UNCHANGED exitCode
       ELSE pc' = [pc EXCEPT !["main"] = "done"] /\ exitCode' = -1
    /\ UNCHANGED <<qv, tv, readPos, srcLen, capOpened, outOpened, capReleased,
                   outReleased, drawn, writes, readError, gv>>

\* std::thread captureThread(...), processingThread(...), writingThread(...)
MainSpawn ==
    \/ /\ pc["main"] = "spawn_capture"
       /\ pc' = [pc EXCEPT !["main"] = "spawn_processing", !["captureThread"] = "read"]
       /\ UNCHANGED <<qv, tv, ev, gv>>
    \/ /\ pc["main"] = "spawn_processing"
       /\ pc' = [pc EXCEPT !["main"] = "spawn_writing", !["processingThread"] = "deq_lock"]
       /\ UNCHANGED <<qv, tv, ev, gv>>
    \/ /\ pc["main"] = "spawn_writing"
       /\ pc' = [pc EXCEPT !["main"] = "join_capture", !["writingThread"] = "deq_lock"]
       /\ UNCHANGED <<qv, tv, ev, gv>>

\* captureThread.join(); processingThread.join(); writingThread.join()
MainJoin ==
    \/ /\ pc["main"] = "join_capture"
       /\ Joinable("captureThread")
       /\ pc' = [pc EXCEPT !["main"] = "join_processing"]
       /\ UNCHANGED <<qv, tv, ev, gv>>
    \/ /\ pc["main"] = "join_processing"
       /\ Joinable("processingThread")
       /\ pc' = [pc EXCEPT !["main"] = "join_writing"]
       /\ UNCHANGED <<qv, tv, ev, gv>>
    \/ /\ pc["main"] = "join_writing"
       /\ Joinable("writingThread")
       /\ pc' = [pc EXCEPT !["main"] = "release_cap"]
       /\ UNCHANGED <<qv, tv, ev, gv>>

\* cap.release()
MainReleaseCap ==
    /\ pc["main"] = "release_cap"
    /\ capReleased' = TRUE
    /\ pc' = [pc EXCEPT !["main"] = "release_out"]
    /\ UNCHANGED <<qv, tv, readPos, srcLen, capOpened, outOpened, outReleased,
                   drawn, writes, readError, exitCode, gv>>

\* out.release()
MainReleaseOut ==
    /\ pc["main"] = "release_out"
    /\ outReleased' = TRUE
    /\ pc' = [pc EXCEPT !["main"] = "return"]
    /\ UNCHANGED <<qv, tv, readPos, srcLen, capOpened, outOpened, capReleased,
                   drawn, writes, readError, exitCode, gv>>

\* return 0
MainReturn ==
    /\ pc["main"] = "return"
    /\ exitCode' = 0
    /\ pc' = [pc EXCEPT !["main"] = "done"]
    /\ UNCHANGED <<qv, tv, readPos, srcLen, capOpened, outOpened, capReleased,
                   outReleased, drawn, writes, readError, gv>>

MainStep ==
    \/ MainOpenCap \/ MainOpenOut \/ MainSpawn \/ MainJoin
    \/ MainReleaseCap \/ MainReleaseOut \/ MainReturn

CaptureStep == CaptureRead \/ CaptureClone \/ CaptureCount \/ QueueStep("captureThread")
ProcessingStep == Detect \/ Draw \/ MakePair \/ QueueStep("processingThread")
WritingStep == Write \/ QueueStep("writingThread")

Next ==
    \/ MainStep
    \/ CaptureStep
    \/ ProcessingStep
    \/ WritingStep
    \/ \E t \in Stages : SpuriousWake(t)

Spec == Init /\ [][Next]_vars

\* every runnable thread is eventually scheduled; a spurious wake-up is
\* never owed to anybody
FairSpec ==
    /\ Spec
    /\ WF_vars(MainStep)
    /\ WF_vars(CaptureStep)
    /\ WF_vars(ProcessingStep)
    /\ WF_vars(WritingStep)

\* ------------------------------------------------------------ queue harness
\* One SafeQueue<int> (frameQueue) under an arbitrary client: a producer that
\* issues any sequence of enqueue and setFinished calls, a consumer that
\* issues dequeue calls.
InitQ ==
    /\ InitCommon
    /\ pc = [t \in Threads |-> IF t \in Clients THEN "idle" ELSE "off"]
    /\ srcLen = 0
    /\ capOpened = FALSE
    /\ outOpened = FALSE

\* the producer calls enqueue(t) with a fresh item
ProducerEnqueue ==
    /\ pc["producer"] = "idle"
    /\ ops["producer"] < MaxOps
    /\ ops' = [ops EXCEPT !["producer"] = @ + 1]
    /\ arg' = [arg EXCEPT !["producer"] = ops["producer"] + 1]
    /\ pc' = [pc EXCEPT !["producer"] = "enq_lock"]
    /\ UNCHANGED <<qv, local, frameCount, frameIndex, ev, enqLog, deqLog, eosCount,
                   finCallers, lateEnq, call, efSeen, finNonEmpty, spurious>>

\* the producer calls setFinished()
ProducerSetFinished ==
    /\ pc["producer"] = "idle"
    /\ ops["producer"] < MaxOps
    /\ ops' = [ops EXCEPT !["producer"] = @ + 1]
    /\ pc' = [pc EXCEPT !["producer"] = "fin_lock"]
    /\ UNCHANGED <<qv, tv, ev, enqLog, deqLog, eosCount, finCallers, lateEnq, call,
                   efSeen, finNonEmpty, spurious>>

\* the consumer calls dequeue(t)
ConsumerDequeue ==
    /\ pc["consumer"] = "idle"
    /\ ops["consumer"] < MaxCalls
    /\ ops' = [ops EXCEPT !["consumer"] = @ + 1]
    /\ pc' = [pc EXCEPT !["consumer"] = "deq_lock"]
    /\ UNCHANGED <<qv, tv, ev, enqLog, deqLog, eosCount, finCallers, lateEnq, call,
                   efSeen, finNonEmpty, spurious>>

NextQ ==
    \/ ProducerEnqueue
    \/ ProducerSetFinished
    \/ ConsumerDequeue
    \/ \E t \in Clients : QueueStep(t)
    \/ \E t \in Clients : SpuriousWake(t)

SpecQ == InitQ /\ [][NextQ]_vars

\* a client thread inside a SafeQueue call is eventually scheduled; nothing
\* obliges a client to issue a further call, nor a wake-up to be spurious
FairSpecQ ==
    /\ SpecQ
    /\ WF_vars(QueueStep("producer"))
    /\ WF_vars(QueueStep("consumer"))

\* ------------------------------------------------------------ properties
IsPrefix(s, t) == Len(s) <= Len(t) /\ \A i \in 1..Len(s) : s[i] = t[i]
AllStagesDone == \A t \in Stages : pc[t] = "done"

\* C1: when main returns after a run of the pipeline, the sink has received
\* exactly as many writes as frames were read from the source (all srcLen of
\* them when no read failed), and the k-th write is the k-th frame read, with
\* its boxes drawn.
C1_OrderPreserved ==
    (pc["main"] = "done" /\ exitCode = 0) =>
        /\ Len(writes) = readPos
        /\ (~readError => readPos = srcLen)
        /\ \A k \in 1..Len(writes) : writes[k].src = k /\ writes[k].drawn

C1_Witness ==
    pc["main"] = "done" /\ exitCode = 0 /\ ~readError /\ Len(writes) >= 2

\* C2: once main starts the stages, under fair scheduling all three stages
\* finish and main gets past its three joins.
C2_Terminates ==
    (pc["main"] = "spawn_capture") ~> (pc["main"] = "done" /\ AllStagesDone)

C2_Witness ==
    /\ pc["main"] = "done" /\ AllStagesDone /\ readPos >= 1
    /\ call["processingThread"].waited /\ call["writingThread"].waited

\* C3: a dequeue that returns end-of-stream does so with the queue empty and
\* finished set, also when setFinished came while items were queued.
C3_NoEarlyEos ==
    \A t \in {"processingThread", "writingThread"} :
        (pc[t] = "deq_eos" \/ call[t].ret = "eos") =>
            (q[DeqQueue(t)] = <<>> /\ finished[DeqQueue(t)])

C3_Witness ==
    pc["processingThread"] = "deq_eos" /\ finNonEmpty["frameQueue"]

\* C4: a consumer blocked in c.wait when finished is set is eventually woken
\* and its dequeue returns end-of-stream.
C4_WokenByFinish ==
    \A qn \in Queues :
        (StageConsumer(qn) \in c[qn] /\ finished[qn])
            ~> (call[StageConsumer(qn)].ret = "eos")

C4_Witness ==
    /\ "writingThread" \in c["processedQueue"] /\ finished["processedQueue"]
    /\ "processingThread" \notin c["frameQueue"]

\* C5: once a dequeue call has found the queue empty and finished (and the
\* producer enqueues nothing after setFinished), that call and every later one
\* return end-of-stream and never wait on the condition variable.
C5_NoWaitOnceFinishedEmpty ==
    (efSeen["frameQueue"] /\ ~lateEnq["frameQueue"]) =>
        /\ pc["consumer"] \notin {"deq_wait", "deq_take"}
        /\ ~call["consumer"].waited
        /\ call["consumer"].ret \in {"pending", "eos"}

C5_Witness ==
    /\ efSeen["frameQueue"] /\ ~lateEnq["frameQueue"]
    /\ eosCount["frameQueue"] >= 2 /\ pc["consumer"] = "idle"

\* C6: per queue, what dequeue has returned is a prefix of what enqueue was
\* given, the rest is still queued in order, and after end-of-stream the two
\* sequences are equal.
C6_Fifo ==
    \A qn \in Queues :
        /\ IsPrefix(deqLog[qn], enqLog[qn])
        /\ enqLog[qn] = deqLog[qn] \o q[qn]
        /\ (eosCount[qn] > 0 => deqLog[qn] = enqLog[qn])

C6_Witness ==
    eosCount["processedQueue"] > 0 /\ Len(deqLog["processedQueue"]) >= 2

\* C7: the pairs the writing stage dequeues carry the indices 0,1,2,... in
\* order, and the pair with index k holds the buffer of frame k+1 of the source.
C7_Indices ==
    /\ \A k \in 1..Len(deqLog["processedQueue"]) :
          deqLog["processedQueue"][k] = <<k - 1, k>>
    /\ \A k \in 1..Len(enqLog["processedQueue"]) :
          enqLog["processedQueue"][k] = <<k - 1, k>>

C7_Witness ==
    Len(deqLog["processedQueue"]) >= 2 /\ pc["writingThread"] = "write"

\* C8: setFinished is called at most once on each queue, by the stage that
\* produces into it, exactly once when the stages are done, and nothing is
\* enqueued on a finished queue.
C8_FinishedOnce ==
    \A qn \in Queues :
        /\ Len(finCallers[qn]) <= 1
        /\ \A i \in 1..Len(finCallers[qn]) : finCallers[qn][i] = StageProducer(qn)
        /\ ~lateEnq[qn]
        /\ (finished[qn] => pc[StageProducer(qn)] \notin
                {"enq_lock", "enq_push", "enq_notify", "enq_unlock"})
        /\ (AllStagesDone => Len(finCallers[qn]) = 1)

C8_Witness ==
    /\ AllStagesDone
    /\ Len(enqLog["processedQueue"]) >= 2
    /\ \A qn \in Queues : Len(finCallers[qn]) = 1

\* C9: a second or later setFinished call changes neither the items nor the
\* finished flag nor the set of blocked consumers, and a dequeue after it
\* returns end-of-stream exactly when the queue is empty.
RepeatCall ==
    \/ /\ pc["producer"] \in {"fin_lock", "fin_set"}
       /\ Len(finCallers["frameQueue"]) >= 1
    \/ /\ pc["producer"] \in {"fin_notify", "fin_unlock"}
       /\ Len(finCallers["frameQueue"]) >= 2

C9_Idempotent ==
    [][ /\ (RepeatCall /\ pc'["producer"] # pc["producer"]) =>
            (finished["frameQueue"] /\ q' = q /\ finished' = finished /\ c' = c)
        /\ (/\ Len(finCallers["frameQueue"]) >= 2
            /\ pc["consumer"] = "deq_check"
            /\ pc'["consumer"] # "deq_check") =>
            pc'["consumer"] =
                IF q["frameQueue"] = <<>> THEN "deq_eos" ELSE "deq_take" ]_vars

C9_Witness ==
    /\ Len(finCallers["frameQueue"]) >= 2 /\ pc["producer"] = "idle"
    /\ call["consumer"].ret = "eos" /\ Len(deqLog["frameQueue"]) >= 1

\* C10: the source and the sink are released only when all three stages are
\* done: no stage can read or write once main is past its joins.
C10_ReleaseAfterJoin ==
    (capReleased \/ outReleased
        \/ pc["main"] \in {"release_cap", "release_out", "return"})
        => AllStagesDone

C10_Witness ==
    capReleased /\ outReleased /\ Len(writes) >= 1 /\ pc["main"] = "return"

\* C11: if the source or the sink cannot be opened, no stage is ever started,
\* nothing is read or written, and main ends with the status -1.
C11_SetupFailure ==
    (~capOpened \/ ~outOpened) =>
        /\ \A t \in Stages : pc[t] = "unstarted"
        /\ readPos = 0 /\ writes = <<>>
        /\ pc["main"] \in {"open_cap", "open_out", "done"}
        /\ (pc["main"] = "done" => exitCode = -1)

C11_Witness ==
    capOpened /\ ~outOpened /\ srcLen >= 1 /\ pc["main"] = "done" /\ exitCode = -1

\* the stages and queue slots that hold a cv::Mat referring to buffer b
RefHolders(b) ==
    {h \in {"captureThread"} :
        pc[h] \in {"enq_lock", "enq_push", "enq_notify", "enq_unlock"} /\ arg[h] = b}
    \cup {h \in {"frameQueue"} : \E i \in 1..Len(q[h]) : q[h][i] = b}
    \cup {h \in {"processingThread"} : pc[h] \notin {"unstarted", "done"} /\ local[h] = b}
    \cup {h \in {"processedQueue"} : \E i \in 1..Len(q[h]) : q[h][i][2] = b}
    \cup {h \in {"writingThread"} : pc[h] \notin {"unstarted", "done"} /\ local[h][2] = b}

StageStep(t) ==
    CASE t = "captureThread" -> CaptureStep
      [] t = "processingThread" -> ProcessingStep
      [] OTHER -> WritingStep
Suspended(t) == \E qn \in Queues : t \in c[qn]
NeededMutex(t) ==
    IF pc[t] \in {"enq_lock", "fin_lock"} THEN EnqQueue(t) ELSE DeqQueue(t)
LockWait(t) ==
    \/ pc[t] \in {"enq_lock", "fin_lock", "deq_lock"}
    \/ pc[t] = "deq_wait" /\ ~Suspended(t)

\* C13: a stage is suspended only inside dequeue, entered with its queue empty
\* and not finished (it stays so until the producer is about to notify); every
\* other running stage can take a step, or waits for a mutex whose holder is
\* not suspended and can take a step: enqueue and setFinished never wait for
\* the queue's length or for the consumer.
C13_OnlyDequeueSuspends ==
    \A t \in Stages :
        /\ \A qn \in Queues : t \in c[qn] =>
              /\ pc[t] = "deq_wait" /\ qn = DeqQueue(t)
              /\ \/ q[qn] = <<>> /\ ~finished[qn]
                 \/ pc[StageProducer(qn)] \in {"enq_notify", "fin_notify"}
        /\ (pc[t] \notin {"unstarted", "done"} /\ ~Suspended(t)) =>
              \/ ENABLED StageStep(t)
              \/ /\ LockWait(t)
                 /\ m[NeededMutex(t)] \in Stages \ {t}
                 /\ ~Suspended(m[NeededMutex(t)])
                 /\ ENABLED StageStep(m[NeededMutex(t)])

C13_Witness ==
    /\ pc["captureThread"] = "enq_lock" /\ m["frameQueue"] = "processingThread"
    /\ Len(q["frameQueue"]) >= 1
    /\ "writingThread" \in c["processedQueue"]

\* C14: while the queue is empty and not finished, no step takes a consumer
\* out of dequeue or makes dequeue return an item or end-of-stream; a consumer
\* woken with no enqueue and no setFinished waits again.
C14_SpuriousWakeWaitsAgain ==
    [][ (/\ pc["consumer"] \in {"deq_lock", "deq_check", "deq_wait"}
         /\ q["frameQueue"] = <<>> /\ ~finished["frameQueue"]) =>
            /\ pc'["consumer"] \in {"deq_lock", "deq_check", "deq_wait"}
            /\ deqLog' = deqLog /\ eosCount' = eosCount ]_vars

C14_Witness ==
    /\ spurious = 1 /\ ops["consumer"] = 1 /\ call["consumer"].waited
    /\ "consumer" \in c["frameQueue"]
    /\ enqLog["frameQueue"] = <<>> /\ finCallers["frameQueue"] = <<>>

\* C15: when an item is pushed while the consumer is blocked in c.wait, the
\* consumer is eventually woken and its dequeue returns an item.
C15_WokenByEnqueue ==
    ("consumer" \in c["frameQueue"] /\ q["frameQueue"] # <<>>)
        ~> (call["consumer"].ret = "item")

C15_Witness ==
    /\ call["consumer"].waited /\ call["consumer"].ret = "item"
    /\ finCallers["frameQueue"] = <<>> /\ spurious = 0

\* C16: the finished flag of a queue never goes back from true to false.
C16_FinishedMonotonic ==
    [][ \A qn \in Queues : finished[qn] => finished'[qn] ]_vars

C16_Witness ==
    /\ finished["frameQueue"] /\ lateEnq["frameQueue"]
    /\ Len(finCallers["frameQueue"]) >= 2 /\ Len(deqLog["frameQueue"]) >= 1

\* C17: processedQueue is marked finished only when frameQueue is finished
\* and drained and every frame taken from it has been enqueued into
\* processedQueue; the writing stage gets end-of-stream only when every frame
\* read from the source has been written.
C17_FinishedInOrder ==
    /\ (finished["processedQueue"]
            \/ pc["processingThread"] \in {"fin_lock", "fin_set", "fin_notify", "fin_unlock"})
        => /\ finished["frameQueue"] /\ q["frameQueue"] = <<>>
           /\ Len(enqLog["frameQueue"]) = readPos
           /\ deqLog["frameQueue"] = enqLog["frameQueue"]
           /\ Len(enqLog["processedQueue"]) = Len(deqLog["frameQueue"])
    /\ (pc["writingThread"] = "deq_eos" \/ eosCount["processedQueue"] > 0)
        => /\ finished["processedQueue"]
           /\ Len(writes) = readPos

C17_Witness ==
    /\ pc["writingThread"] = "deq_eos" /\ Len(writes) = 2
    /\ finNonEmpty["frameQueue"]

\* C18: after a read failure the capture stage reads no more and marks
\* frameQueue finished once; when main returns, exactly the frames read before
\* the failure have been written, in order, and the status is 0 as after a
\* clean end.
C18_ReadFailureIsExhaustion ==
    readError =>
        /\ pc["captureThread"] \in {"fin_lock", "fin_set", "fin_notify", "fin_unlock", "done"}
        /\ readPos < srcLen
        /\ Len(finCallers["frameQueue"]) <= 1
        /\ (pc["main"] = "done" =>
              /\ exitCode = 0
              /\ Len(finCallers["frameQueue"]) = 1
              /\ Len(writes) = readPos
              /\ \A k \in 1..Len(writes) : writes[k].src = k /\ writes[k].drawn)

C18_Witness ==
    readError /\ readPos = 1 /\ pc["main"] = "done" /\ Len(writes) = 1

\* C19: a failed write changes nothing: the writing stage goes on to dequeue
\* and write every remaining frame, all stages run to their end, and main
\* returns 0.
C19_WriteFailureIgnored ==
    (\E k \in 1..Len(writes) : ~writes[k].ok) =>
        /\ pc["writingThread"] = "done" => eosCount["processedQueue"] = 1
        /\ (pc["main"] = "done" =>
              /\ exitCode = 0
              /\ AllStagesDone
              /\ Len(writes) = readPos
              /\ \A k \in 1..Len(writes) : writes[k].src = k)

C19_Witness ==
    /\ pc["main"] = "done" /\ Len(writes) = 2
    /\ ~writes[1].ok /\ writes[2].ok

\* the frames in flight, stage by stage
Written == [k \in 1..Len(writes) |-> writes[k].src]
WritingHeld ==
    IF pc["writingThread"] = "write" THEN <<local["writingThread"][2]>> ELSE <<>>
Processed == [k \in 1..Len(q["processedQueue"]) |-> q["processedQueue"][k][2]]
ProcessingHeld ==
    IF pc["processingThread"] \in {"detect", "draw", "pair", "enq_lock", "enq_push"}
    THEN <<local["processingThread"]>> ELSE <<>>
CaptureHeld ==
    IF pc["captureThread"] \in {"clone", "enq_lock", "enq_push"}
    THEN <<local["captureThread"]>> ELSE <<>>
FramesRead == [k \in 1..readPos |-> k]

\* C20 (as amended): the frames written, the frame the writing stage holds,
\* processedQueue, the frame the processing stage holds, frameQueue and the
\* frame the capture stage has read but not yet pushed are, in this order,
\* exactly the frames read so far.
C20_Conservation ==
    Written \o WritingHeld \o Processed \o ProcessingHeld \o q["frameQueue"]
        \o CaptureHeld = FramesRead

C20_Witness ==
    /\ Len(Written) = 1 /\ WritingHeld = <<>> /\ Len(Processed) = 0
    /\ ProcessingHeld = <<2>> /\ pc["processingThread"] = "draw"
    /\ readPos = 2

\* C20 (as claimed): the same without the capture stage's frame.
C20_ConservationNoCapture ==
    Written \o WritingHeld \o Processed \o ProcessingHeld \o q["frameQueue"]
        = FramesRead

====
